---- MODULE Spec2Model ----
(***************************************************************************)
(* CrossfilterX WebAssembly kernels (packages/core/src/wasm/kernels/src/   *)
(* lib.rs): the histogram accumulator with its write-combining shard       *)
(* cache, the scalar and the SIMD driver, the scratch buffer and the       *)
(* metrics counters.                                                       *)
(*                                                                         *)
(* Representation.  A zero-initialised Rust vector (counts, store,         *)
(* shard_map) is the record [len |-> n, at |-> f], f a function on the     *)
(* set of indices that hold a nonzero value; every other index below len   *)
(* reads 0.  The representation is canonical (a zero is never stored), so  *)
(* two vectors are equal exactly when the Rust vectors are.  The u32 and   *)
(* u64 counters cannot wrap: a wasm32 memory holds fewer than 2^31 u16     *)
(* entries.                                                                *)
(***************************************************************************)
EXTENDS Integers, Sequences, FiniteSets, TLC

VARIABLES
    scratch,       \* SCRATCH: the thread-local Vec<u16>, a sequence
    metrics,       \* METRICS: the thread-local Metrics record
    simd,          \* cfg(target_feature = "simd128") of the build
    pc,            \* position of the calling context: "idle", "slice", "loop", "flushed"
    data,          \* the slice handed to accumulate_slice
    bin_count,     \* the bin_count argument of the call in progress
    counts,        \* the counts vector of the call in progress (NoVec outside a call)
    cache,         \* the ShardCache of the call in progress (NoCache outside a call)
    index,         \* the driver's position in data (0-based)
    lane_i,        \* the SIMD driver's position inside the loaded lane
    ret,           \* the value returned by the last boundary call
    view,          \* length of the view returned by the last scratchBuffer call
    max_size,      \* history: the largest size ever passed to scratchBuffer
    fed,           \* history: the values passed to increment by the call, in order
    last,          \* history: the last boundary call, its arguments, the Metrics before it
    clean          \* history: no accumulation got past its checks since the last
                   \*          resetMetrics / takeMetrics (or since the start)

vars == <<scratch, metrics, simd, pc, data, bin_count, counts, cache, index,
          lane_i, ret, view, max_size, fed, last, clean>>

-----------------------------------------------------------------------------
(* Bounds of the model *)

\* longest scratch buffer reserved through the boundary
MaxScratch == 2
\* longest stream built freely from the alphabet of the pure-function runs
MaxLen == 3
\* longest shard sweep (one entry per shard, cyclic) of the pure-function runs
MaxSweep == 35

-----------------------------------------------------------------------------
(* Integer helpers *)

Pow2(n) == 2 ^ n

Min(a, b) == IF a <= b THEN a ELSE b

Max(a, b) == IF a >= b THEN a ELSE b

\* usize >> bits
Shr(x, bits) == x \div Pow2(bits)

\* usize << bits
Shl(x, bits) == x * Pow2(bits)

\* usize & usize, bit by bit
RECURSIVE BitAnd(_, _)
BitAnd(a, b) ==
    IF a = 0 \/ b = 0 THEN 0
    ELSE (a % 2) * (b % 2) + 2 * BitAnd(a \div 2, b \div 2)

\* usize::MAX, the all-ones mask of a cache whose shard_bits is 0.  The model's
\* integers end at 2^31 - 1; the mask is all ones over every value a u16 bin
\* can take, and increment never reads it when shard_bits is 0.
USIZE_MAX == 2147483647

RECURSIVE SumOver(_, _)
SumOver(S, f) ==
    IF S = {} THEN 0
    ELSE LET x == CHOOSE y \in S : TRUE IN f[x] + SumOver(S \ {x}, f)

-----------------------------------------------------------------------------
(* Vectors *)

\* vec![0; n]
VecNew(n) == [len |-> n, at |-> <<>>]

\* v[i]
VGet(v, i) == IF i \in DOMAIN v.at THEN v.at[i] ELSE 0

\* v[i] = x
VSet(v, i, x) ==
    [v EXCEPT !.at =
        IF x = 0
        THEN [j \in (DOMAIN v.at) \ {i} |-> v.at[j]]
        ELSE [j \in (DOMAIN v.at) \cup {i} |-> IF j = i THEN x ELSE v.at[j]]]

\* for value in &mut v[start..end] { *value = 0 }
VZero(v, start, end) ==
    [v EXCEPT !.at = [j \in {k \in DOMAIN v.at : k < start \/ k >= end} |-> v.at[j]]]

\* the counts vector as returned: Uint32Array::from(counts.as_slice())
NoVec == [len |-> 0, at |-> <<>>]

-----------------------------------------------------------------------------
(* Metrics *)

\* Metrics::default()
MetricsDefault == [flushes |-> 0, evicts |-> 0, final_flushes |-> 0, bins |-> 0, rows |-> 0]

\* Metrics::reset
MetricsReset(m) == MetricsDefault

\* Metrics::finalise: a placeholder that changes nothing
MetricsFinalise(m) == m

\* the object take_metrics builds from the counters
MetricsObject(m) ==
    [flushes |-> m.flushes, evictions |-> m.evicts, finalFlushes |-> m.final_flushes,
     bins |-> m.bins, rows |-> m.rows]

-----------------------------------------------------------------------------
(* Shard geometry *)

\* shard_params with the third tier's extent half its stride, as the widest tier's is
shard_params_half_extent(len) ==
    IF len <= 256 THEN [shard_bits |-> 0, shard_size |-> Max(len, 1)]
    ELSE IF len <= 2048 THEN [shard_bits |-> 6, shard_size |-> 64]
    ELSE IF len <= 16384 THEN [shard_bits |-> 8, shard_size |-> 128]
    ELSE [shard_bits |-> 10, shard_size |-> 512]

shard_params(len) ==
    IF len <= 256 THEN [shard_bits |-> 0, shard_size |-> Max(len, 1)]
    ELSE IF len <= 2048 THEN [shard_bits |-> 6, shard_size |-> 64]
    ELSE IF len <= 16384 THEN [shard_bits |-> 8, shard_size |-> 256]
    ELSE [shard_bits |-> 10, shard_size |-> 512]

shard_slot_count(len) ==
    LET shard_bits == shard_params(len).shard_bits
        \* the if-else is the left operand of "+ 1"
        shard_count == (IF shard_bits = 0 THEN 1
                        ELSE Shr(Max(len - 1, 0), shard_bits)) + 1
        cap == IF len <= 2048 THEN 8 ELSE IF len <= 16384 THEN 16 ELSE 32
    IN  Max(Min(shard_count, cap), 1)

-----------------------------------------------------------------------------
(* ShardCache.  The operators below take and return the record             *)
(*   st = [cache |-> ShardCache, counts |-> Vec<u32>, metrics |-> Metrics] *)
(* the three pieces of memory that increment and the flushes write.        *)

\* Option::None for ShardSlot::id; Some(s) is the shard index s >= 0
None == -1

NoCache == [shard_bits |-> 0, shard_size |-> 0, slots |-> <<>>,
            shard_map |-> NoVec, store |-> NoVec, next_evict |-> 0, mask |-> 0]

\* self.slots.len()
SlotsLen(c) == Cardinality(DOMAIN c.slots)

ShardCacheNew(shard_bits, shard_size, slot_count0) ==
    LET slot_count == Max(slot_count0, 1)
        mask == IF shard_bits = 0 THEN USIZE_MAX ELSE Shl(1, shard_bits) - 1
        shard_map_size == IF shard_bits = 0 THEN 1 ELSE Shl(1, 16 - shard_bits)
    IN  [shard_bits |-> shard_bits,
         shard_size |-> shard_size,
         slots      |-> [i \in 0 .. slot_count - 1 |-> [id |-> None, used |-> FALSE]],
         shard_map  |-> VecNew(shard_map_size),
         store      |-> VecNew(shard_size * slot_count),
         next_evict |-> 0,
         mask       |-> mask]

reset_slot_counts(c, slot_index) ==
    LET start == slot_index * c.shard_size
        end   == start + c.shard_size
    IN  [c EXCEPT !.store = VZero(c.store, start, end)]

\* a Metrics update that counts every flush under both reasons
RecordFlushBothReasons(m, reason, bins_written, rows_written) ==
    [m EXCEPT !.flushes = @ + 1,
              !.bins = @ + bins_written,
              !.rows = @ + rows_written,
              !.evicts = @ + 1,
              !.final_flushes = @ + 1]

\* the Metrics update at the end of flush_slot
RecordFlush(m, reason, bins_written, rows_written) ==
    [m EXCEPT !.flushes = @ + 1,
              !.bins = @ + bins_written,
              !.rows = @ + rows_written,
              !.evicts = IF reason = "Evict" THEN @ + 1 ELSE @,
              !.final_flushes = IF reason = "Final" THEN @ + 1 ELSE @]

flush_slot(st, slot_index, reason) ==
    LET c == st.cache IN
    IF SlotsLen(c) = 0 THEN st
    ELSE IF c.slots[slot_index].id = None THEN st
    ELSE IF ~c.slots[slot_index].used THEN st
    ELSE
      LET shard_idx == c.slots[slot_index].id
          base_idx  == Shl(shard_idx, c.shard_bits)
          start     == slot_index * c.shard_size
          end       == start + c.shard_size
          \* the offsets of store[start..end] that hold a nonzero value
          nonzero   == {k - start : k \in {j \in DOMAIN c.store.at : j >= start /\ j < end}}
          \* those for which counts.get_mut(base_idx + offset) is Some
          landed    == {o \in nonzero : base_idx + o < st.counts.len}
          targets   == {base_idx + o : o \in landed}
          value     == [o \in nonzero |-> c.store.at[start + o]]
          bins_written == Cardinality(nonzero)
          rows_written == SumOver(landed, value)
          counts2   == [st.counts EXCEPT !.at =
                          [j \in (DOMAIN st.counts.at) \cup targets |->
                              VGet(st.counts, j)
                              + (IF j \in targets THEN value[j - base_idx] ELSE 0)]]
          cache2    == [c EXCEPT !.store = VZero(c.store, start, end),
                                 !.slots[slot_index].used = FALSE]
      IN  [cache   |-> cache2,
           counts  |-> counts2,
           metrics |-> IF bins_written > 0
                       THEN RecordFlush(st.metrics, reason, bins_written, rows_written)
                       ELSE st.metrics]

\* a slot assignment that forgets the shard_map entry
AssignSlotNoMap(c, slot_index, shard_idx) ==
    [c EXCEPT !.slots[slot_index] = [id |-> shard_idx, used |-> FALSE]]

\* slot.id = Some(shard_idx); slot.used = false; and the shard_map entry, when
\* shard_idx is inside the map
AssignSlot(c, slot_index, shard_idx) ==
    [c EXCEPT !.slots[slot_index] = [id |-> shard_idx, used |-> FALSE],
              !.shard_map = IF shard_idx < @.len
                            THEN VSet(@, shard_idx, (slot_index + 1) % 256)
                            ELSE @]

\* an eviction that leaves the old shard's map entry in place
ClearOldMappingSkipped(c, slot_index) == c

\* if let Some(old_shard_idx) = self.slots[slot_index].id { shard_map[old] = 0 }
ClearOldMapping(c, slot_index) ==
    IF c.slots[slot_index].id # None /\ c.slots[slot_index].id < c.shard_map.len
    THEN [c EXCEPT !.shard_map = VSet(@, c.slots[slot_index].id, 0)]
    ELSE c

\* an eviction that leaves the cursor where it is
AdvanceCursorStuck(c, slot_index) == c

\* self.next_evict = (slot_index + 1) % self.slots.len()
AdvanceCursor(c, slot_index) ==
    [c EXCEPT !.next_evict = (slot_index + 1) % SlotsLen(c)]

\* ensure_slot, second branch: claim the free slot slot_index
ClaimSlot(st, shard_idx, slot_index) ==
    [st   |-> [st EXCEPT !.cache =
                  AssignSlot(reset_slot_counts(@, slot_index), slot_index, shard_idx)],
     slot |-> slot_index]

\* eviction that reassigns the slot without flushing it first
EvictSlotNoFlush(st, shard_idx, slot_index) ==
    [st   |-> [st EXCEPT !.cache =
                  AdvanceCursor(
                      AssignSlot(
                          ClearOldMapping(reset_slot_counts(@, slot_index), slot_index),
                          slot_index, shard_idx),
                      slot_index)],
     slot |-> slot_index]

\* ensure_slot, third branch: evict the slot under the cursor
EvictSlot(st, shard_idx, slot_index) ==
    [st   |-> [flush_slot(st, slot_index, "Evict") EXCEPT !.cache =
                  AdvanceCursor(
                      AssignSlot(
                          ClearOldMapping(reset_slot_counts(@, slot_index), slot_index),
                          slot_index, shard_idx),
                      slot_index)],
     slot |-> slot_index]

\* self.slots.iter().position(|slot| slot.id.is_none()): the free slots
FreeSlots(c) == {i \in DOMAIN c.slots : c.slots[i].id = None}

\* the shard_map entry of shard_idx, 0 when shard_idx is outside the map
Mapped(c, shard_idx) ==
    IF shard_idx < c.shard_map.len THEN VGet(c.shard_map, shard_idx) ELSE 0

\* returns [st |-> the state after the call, slot |-> the slot index returned]
ensure_slot(st, shard_idx) ==
    IF Mapped(st.cache, shard_idx) > 0
    THEN [st |-> st, slot |-> Mapped(st.cache, shard_idx) - 1]
    ELSE IF FreeSlots(st.cache) # {}
    THEN ClaimSlot(st, shard_idx,
                   CHOOSE i \in FreeSlots(st.cache) : \A j \in FreeSlots(st.cache) : i <= j)
    ELSE EvictSlot(st, shard_idx, st.cache.next_evict % SlotsLen(st.cache))

\* let shard_idx = if self.shard_bits == 0 { 0 } else { bin >> self.shard_bits }
ShardIdx(c, bin) == IF c.shard_bits = 0 THEN 0 ELSE Shr(bin, c.shard_bits)

\* let local_index = if self.shard_bits == 0 { bin } else { bin & self.mask }
LocalIndex(c, bin) == IF c.shard_bits = 0 THEN bin ELSE BitAnd(bin, c.mask)

\* Bump without the bypass: an entry beyond the slot's physical extent is dropped
BumpNoBypass(es, bin) ==
    IF LocalIndex(es.st.cache, bin) < es.st.cache.shard_size
    THEN [es.st EXCEPT
            !.cache.store = VSet(@, es.slot * es.st.cache.shard_size
                                      + LocalIndex(es.st.cache, bin),
                                 VGet(@, es.slot * es.st.cache.shard_size
                                           + LocalIndex(es.st.cache, bin)) + 1),
            !.cache.slots[es.slot].used = TRUE]
    ELSE es.st

\* Bump that writes the counter without marking the slot dirty
BumpNoDirty(es, bin) ==
    IF LocalIndex(es.st.cache, bin) < es.st.cache.shard_size
    THEN [es.st EXCEPT
            !.cache.store = VSet(@, es.slot * es.st.cache.shard_size
                                      + LocalIndex(es.st.cache, bin),
                                 VGet(@, es.slot * es.st.cache.shard_size
                                           + LocalIndex(es.st.cache, bin)) + 1)]
    ELSE IF bin < es.st.counts.len
    THEN [es.st EXCEPT !.counts = VSet(@, bin, VGet(@, bin) + 1)]
    ELSE es.st

\* increment after ensure_slot returned es: the slot's counter, or the bypass
Bump(es, bin) ==
    IF LocalIndex(es.st.cache, bin) < es.st.cache.shard_size
    THEN [es.st EXCEPT
            !.cache.store = VSet(@, es.slot * es.st.cache.shard_size
                                      + LocalIndex(es.st.cache, bin),
                                 VGet(@, es.slot * es.st.cache.shard_size
                                           + LocalIndex(es.st.cache, bin)) + 1),
            !.cache.slots[es.slot].used = TRUE]
    ELSE IF bin < es.st.counts.len
    THEN [es.st EXCEPT !.counts = VSet(@, bin, VGet(@, bin) + 1)]
    ELSE es.st

\* increment without its range check
incrementUnchecked(st, bin) ==
    Bump(ensure_slot(st, ShardIdx(st.cache, bin)), bin)

increment(st, bin) ==
    IF bin >= st.counts.len THEN st
    ELSE Bump(ensure_slot(st, ShardIdx(st.cache, bin)), bin)

\* the first loop of flush_all, from slot i on
RECURSIVE flush_slots_from(_, _)
flush_slots_from(st, i) ==
    IF i >= SlotsLen(st.cache) THEN st
    ELSE flush_slots_from(
            [flush_slot(st, i, "Final") EXCEPT
                !.cache.slots[i] = [id |-> None, used |-> FALSE]], i + 1)

\* flush_all without its second loop: the shard map is left as it was
flush_all_keeps_map(st) == flush_slots_from(st, 0)

\* flush_all: every slot flushed with reason Final and unmapped, then the map zeroed
flush_all(st) ==
    [flush_slots_from(st, 0) EXCEPT !.cache.shard_map = VecNew(@.len)]

-----------------------------------------------------------------------------
(* The drivers *)

\* const LANES: usize = 8
LANES == 8

\* v128_load(data.as_ptr().add(index)): the eight u16 lanes starting at data[index]
v128_load(d, i) == [l \in 0 .. LANES - 1 |-> d[i + l + 1]]

\* lanes numbered from the other end of the vector
u16x8_extract_lane_reversed(lane, l) == lane[LANES - 1 - l]

u16x8_extract_lane(lane, l) == lane[l]

\* shard_params, shard_slot_count and ShardCache::new at the head of either driver
DriverCache(counts_len) ==
    ShardCacheNew(shard_params(counts_len).shard_bits,
                  shard_params(counts_len).shard_size,
                  shard_slot_count(counts_len))

\* for &bin in data[from..] { cache.increment(bin as usize, counts) }   (from is 0-based)
RECURSIVE IncrementAll(_, _, _)
IncrementAll(st, d, from) ==
    IF from >= Len(d) THEN st
    ELSE IncrementAll(increment(st, d[from + 1]), d, from + 1)

\* accumulate_scalar_common as a function of the slice, the counts and the Metrics
accumulate_scalar_common(d, cnts, m) ==
    flush_all(IncrementAll(
        [cache |-> DriverCache(cnts.len), counts |-> cnts, metrics |-> m], d, 0))

\* accumulate_slice (scalar build) as a function of its arguments: the counts it
\* returns and the Metrics it leaves; bin_count >= 1
SliceResult(st) == [counts |-> st.counts, metrics |-> MetricsFinalise(st.metrics)]

accumulate_slice(d, bc) ==
    SliceResult(accumulate_scalar_common(d, VecNew(bc), MetricsReset(MetricsDefault)))

-----------------------------------------------------------------------------
(* Values crossing the boundary *)

RetNone          == [kind |-> "none"]
RetUnit          == [kind |-> "unit"]
RetView(size)    == [kind |-> "view", len |-> size]
RetOk(cnts)      == [kind |-> "Ok", counts |-> cnts]
RetErr(msg)      == [kind |-> "Err", msg |-> msg]
RetMetrics(obj)  == [kind |-> "metrics", obj |-> obj]

\* the record of a call that left no history to compare with
Call(op, len) ==
    [op |-> op, len |-> len, bin_count |-> 0,
     scratch |-> <<>>, metrics |-> MetricsDefault, clean |-> TRUE]

\* the record of a call that reads or writes the thread-local state: its name and
\* arguments, and SCRATCH, METRICS and the history flag as they were when it was made
CallOn(op, len, bc) ==
    [op |-> op, len |-> len, bin_count |-> bc,
     scratch |-> scratch, metrics |-> metrics, clean |-> clean]

st_now == [cache |-> cache, counts |-> counts, metrics |-> metrics]

-----------------------------------------------------------------------------
(* Boundary operations *)

\* scratchBuffer that resizes to the requested size whatever the current length
ScratchBufferTruncates(size) ==
    /\ pc = "idle"
    /\ scratch' = IF Len(scratch) < size
                  THEN scratch \o [i \in 1 .. size - Len(scratch) |-> 0]
                  ELSE SubSeq(scratch, 1, size)
    /\ view' = size
    /\ max_size' = Max(max_size, size)
    /\ ret' = RetView(size)
    /\ last' = Call("scratchBuffer", size)
    /\ UNCHANGED <<metrics, simd, pc, data, bin_count, counts, cache, index, lane_i,
                   fed, clean>>

\* scratchBuffer(size)
ScratchBuffer(size) ==
    /\ pc = "idle"
    /\ scratch' = IF Len(scratch) < size
                  THEN scratch \o [i \in 1 .. size - Len(scratch) |-> 0]
                  ELSE scratch
    /\ view' = size
    /\ max_size' = Max(max_size, size)
    /\ ret' = RetView(size)
    /\ last' = Call("scratchBuffer", size)
    /\ UNCHANGED <<metrics, simd, pc, data, bin_count, counts, cache, index, lane_i,
                   fed, clean>>

\* the caller stores v at position i (0-based) of the view it was last given
WriteView(i, v) ==
    /\ pc = "idle"
    /\ i < view
    /\ scratch' = [scratch EXCEPT ![i + 1] = v]
    /\ last' = Call("write", 0)
    /\ UNCHANGED <<metrics, simd, pc, data, bin_count, counts, cache, index, lane_i,
                   ret, view, max_size, fed, clean>>

\* accumulateScratch that grows the buffer instead of failing
AccumulateScratchGrows(len, bc) ==
    /\ pc = "idle"
    /\ last' = CallOn("accumulateScratch", len, bc)
    /\ scratch' = IF Len(scratch) < len
                  THEN scratch \o [i \in 1 .. len - Len(scratch) |-> 0]
                  ELSE scratch
    /\ data' = SubSeq(scratch', 1, len)
    /\ bin_count' = bc
    /\ fed' = <<>>
    /\ pc' = "slice"
    /\ UNCHANGED <<metrics, simd, counts, cache, index, lane_i, ret, view, max_size, clean>>

\* accumulateScratch that compares len with the length of the last view
AccumulateScratchViewCheck(len, bc) ==
    /\ pc = "idle"
    /\ last' = CallOn("accumulateScratch", len, bc)
    /\ IF len > view
       THEN /\ ret' = RetErr("scratch length exceeded")
            /\ UNCHANGED <<pc, data, bin_count>>
       ELSE /\ data' = SubSeq(scratch, 1, len)
            /\ bin_count' = bc
            /\ pc' = "slice"
            /\ UNCHANGED ret
    /\ fed' = <<>>
    /\ UNCHANGED <<scratch, metrics, simd, counts, cache, index, lane_i, view,
                   max_size, clean>>

\* accumulateScratch(len, bin_count), up to the call of accumulate_slice
AccumulateScratch(len, bc) ==
    /\ pc = "idle"
    /\ last' = CallOn("accumulateScratch", len, bc)
    /\ IF len > Len(scratch)
       THEN /\ ret' = RetErr("scratch length exceeded")
            /\ UNCHANGED <<pc, data, bin_count>>
       ELSE /\ data' = SubSeq(scratch, 1, len)
            /\ bin_count' = bc
            /\ pc' = "slice"
            /\ UNCHANGED ret
    /\ fed' = <<>>
    /\ UNCHANGED <<scratch, metrics, simd, counts, cache, index, lane_i, view,
                   max_size, clean>>

\* accumulateBins(bins, bin_count), up to the call of accumulate_slice
AccumulateBins(bins, bc) ==
    /\ pc = "idle"
    /\ last' = CallOn("accumulateBins", Len(bins), bc)
    /\ data' = bins
    /\ bin_count' = bc
    /\ fed' = <<>>
    /\ pc' = "slice"
    /\ UNCHANGED <<scratch, metrics, simd, counts, cache, index, lane_i, ret, view,
                   max_size, clean>>

\* accumulate_slice that resets the Metrics before it checks bin_count
AccumulateSliceResetFirst ==
    /\ pc = "slice"
    /\ metrics' = MetricsReset(metrics)
    /\ IF bin_count = 0
       THEN /\ ret' = RetErr("bin_count must be greater than zero")
            /\ pc' = "idle"
            /\ UNCHANGED <<counts, cache, index, lane_i, clean>>
       ELSE /\ counts' = VecNew(bin_count)
            /\ cache' = DriverCache(bin_count)
            /\ index' = 0
            /\ lane_i' = 0
            /\ clean' = FALSE
            /\ pc' = "loop"
            /\ UNCHANGED ret
    /\ UNCHANGED <<scratch, simd, data, bin_count, view, max_size, fed, last>>

\* accumulate_slice that leaves the Metrics of earlier calls in place
AccumulateSliceNoReset ==
    /\ pc = "slice"
    /\ IF bin_count = 0
       THEN /\ ret' = RetErr("bin_count must be greater than zero")
            /\ pc' = "idle"
            /\ UNCHANGED <<counts, cache, index, lane_i, clean>>
       ELSE /\ counts' = VecNew(bin_count)
            /\ cache' = DriverCache(bin_count)
            /\ index' = 0
            /\ lane_i' = 0
            /\ clean' = FALSE
            /\ pc' = "loop"
            /\ UNCHANGED ret
    /\ UNCHANGED <<scratch, metrics, simd, data, bin_count, view, max_size, fed, last>>

\* accumulate_slice from its entry to the head of the driver's loop
AccumulateSlice ==
    /\ pc = "slice"
    /\ IF bin_count = 0
       THEN /\ ret' = RetErr("bin_count must be greater than zero")
            /\ pc' = "idle"
            /\ UNCHANGED <<metrics, counts, cache, index, lane_i, clean>>
       ELSE /\ counts' = VecNew(bin_count)
            /\ metrics' = MetricsReset(metrics)
            /\ cache' = DriverCache(bin_count)
            /\ index' = 0
            /\ lane_i' = 0
            /\ clean' = FALSE
            /\ pc' = "loop"
            /\ UNCHANGED ret
    /\ UNCHANGED <<scratch, simd, data, bin_count, view, max_size, fed, last>>

\* the effect of one cache.increment(bin, counts) of the running driver
Store(st) ==
    /\ cache' = st.cache
    /\ counts' = st.counts
    /\ metrics' = st.metrics

Feed(bin) ==
    /\ Store(increment(st_now, bin))
    /\ fed' = Append(fed, bin)

\* accumulate_scalar_common: one turn of its loop
ScalarStep ==
    /\ pc = "loop"
    /\ ~simd
    /\ index < Len(data)
    /\ Feed(data[index + 1])
    /\ index' = index + 1
    /\ UNCHANGED <<scratch, simd, pc, data, bin_count, lane_i, ret, view, max_size,
                   last, clean>>

\* accumulate_simd: one turn of the inner loop over a loaded lane
SimdLaneStep ==
    /\ pc = "loop"
    /\ simd
    /\ index + LANES <= Len(data)
    /\ Feed(u16x8_extract_lane(v128_load(data, index), lane_i))
    /\ lane_i' = (lane_i + 1) % LANES
    /\ index' = IF lane_i + 1 = LANES THEN index + LANES ELSE index
    /\ UNCHANGED <<scratch, simd, pc, data, bin_count, ret, view, max_size, last, clean>>

\* accumulate_simd: one turn of the remainder loop
SimdRemainderStep ==
    /\ pc = "loop"
    /\ simd
    /\ index + LANES > Len(data)
    /\ index < Len(data)
    /\ Feed(data[index + 1])
    /\ index' = index + 1
    /\ UNCHANGED <<scratch, simd, pc, data, bin_count, lane_i, ret, view, max_size,
                   last, clean>>

\* cache.flush_all(counts) at the end of either driver
FlushAll ==
    /\ pc = "loop"
    /\ index >= Len(data)
    /\ Store(flush_all(st_now))
    /\ pc' = "flushed"
    /\ UNCHANGED <<scratch, simd, data, bin_count, index, lane_i, ret, view, max_size,
                   fed, last, clean>>

\* accumulate_slice after the driver: finalise, drop the cache, return the counts
Return ==
    /\ pc = "flushed"
    /\ metrics' = MetricsFinalise(metrics)
    /\ ret' = RetOk(counts)
    /\ cache' = NoCache
    /\ counts' = NoVec
    /\ pc' = "idle"
    /\ UNCHANGED <<scratch, simd, data, bin_count, index, lane_i, view, max_size, fed,
                   last, clean>>

\* resetMetrics()
ResetMetrics ==
    /\ pc = "idle"
    /\ metrics' = MetricsReset(metrics)
    /\ ret' = RetUnit
    /\ clean' = TRUE
    /\ last' = CallOn("resetMetrics", 0, 0)
    /\ UNCHANGED <<scratch, simd, pc, data, bin_count, counts, cache, index, lane_i,
                   view, max_size, fed>>

\* takeMetrics that reads the counters and leaves them
TakeMetricsNoReset ==
    /\ pc = "idle"
    /\ ret' = RetMetrics(MetricsObject(metrics))
    /\ clean' = TRUE
    /\ last' = CallOn("takeMetrics", 0, 0)
    /\ UNCHANGED <<scratch, metrics, simd, pc, data, bin_count, counts, cache, index,
                   lane_i, view, max_size, fed>>

\* takeMetrics()
TakeMetrics ==
    /\ pc = "idle"
    /\ ret' = RetMetrics(MetricsObject(metrics))
    /\ metrics' = MetricsReset(metrics)
    /\ clean' = TRUE
    /\ last' = CallOn("takeMetrics", 0, 0)
    /\ UNCHANGED <<scratch, simd, pc, data, bin_count, counts, cache, index, lane_i,
                   view, max_size, fed>>

-----------------------------------------------------------------------------
(* The calling context: any sequence of boundary calls, small inputs *)

\* values the caller writes into the scratch view
ScratchVals == {0, 5}

\* bin_count arguments of the boundary calls
ApiBinCounts == {0, 2}

\* buffers handed to accumulateBins: empty, short, and one longer than a lane
ApiStreams == {<<>>, <<1, 5>>, <<1, 0, 5, 1, 1, 0, 0, 1, 5, 1>>}

Init ==
    /\ scratch = <<>>
    /\ metrics = MetricsDefault
    /\ simd \in BOOLEAN
    /\ pc = "idle"
    /\ data = <<>>
    /\ bin_count = 0
    /\ counts = NoVec
    /\ cache = NoCache
    /\ index = 0
    /\ lane_i = 0
    /\ ret = RetNone
    /\ view = 0
    /\ max_size = 0
    /\ fed = <<>>
    /\ last = Call("none", 0)
    /\ clean = TRUE

Driver ==
    \/ AccumulateSlice
    \/ ScalarStep
    \/ SimdLaneStep
    \/ SimdRemainderStep
    \/ FlushAll
    \/ Return

Next ==
    \/ \E size \in 0 .. MaxScratch : ScratchBuffer(size)
    \/ \E i \in 0 .. MaxScratch - 1, v \in ScratchVals : WriteView(i, v)
    \/ \E len \in 0 .. MaxScratch + 1, bc \in ApiBinCounts : AccumulateScratch(len, bc)
    \/ \E bins \in ApiStreams, bc \in ApiBinCounts : AccumulateBins(bins, bc)
    \/ ResetMetrics
    \/ TakeMetrics
    \/ Driver

Spec == Init /\ [][Next]_vars

-----------------------------------------------------------------------------
(* One accumulation as a function of its input: the slice and bin_count are *)
(* drawn at the start, the build is either one, and the driver runs.        *)

\* entries of the freely built streams: bins of the first shard, of later shards,
\* of the unbacked half of a 1024-wide shard (512, 17000)
AccVals == {0, 1, 7, 300, 512, 17000}

\* bin counts of the four geometries, at and around the thresholds
AccBinCounts == {0, 1, 4, 5, 256, 257, 640, 2048, 2049, 4608, 16384, 16385, 40000, 65536}

\* Scenarios A, B and C
Scenarios == {<<0, 1, 1, 3, 0>>, <<0, 0, 0>>, <<7, 2, 1>>}

\* a sweep visits `period` shards in turn, one bin of each, and starts over
SweepShapes ==
    {[start |-> 0, stride |-> 64,   period |-> 11],
     [start |-> 0, stride |-> 256,  period |-> 17],
     [start |-> 0, stride |-> 1536, period |-> 33]}

SweepLens == {LANES, LANES + 1, 2 * LANES + 2, MaxSweep}

Sweep(shape, n) ==
    [i \in 1 .. n |-> shape.start + ((i - 1) % shape.period) * shape.stride]

AccStreams ==
    UNION {[1 .. n -> AccVals] : n \in 0 .. MaxLen}
    \cup Scenarios
    \cup {Sweep(shape, n) : shape \in SweepShapes, n \in SweepLens}

InitAcc ==
    /\ scratch = <<>>
    /\ metrics = MetricsDefault
    /\ simd \in BOOLEAN
    /\ pc = "slice"
    /\ data \in AccStreams
    /\ bin_count \in AccBinCounts
    /\ counts = NoVec
    /\ cache = NoCache
    /\ index = 0
    /\ lane_i = 0
    /\ ret = RetNone
    /\ view = 0
    /\ max_size = 0
    /\ fed = <<>>
    /\ last = [op |-> "accumulateBins", len |-> Len(data), bin_count |-> bin_count,
               scratch |-> <<>>, metrics |-> MetricsDefault, clean |-> TRUE]
    /\ clean = TRUE

SpecAcc == InitAcc /\ [][Driver]_vars

-----------------------------------------------------------------------------
(* Vocabulary of the properties *)

AccOps == {"accumulateScratch", "accumulateBins"}

\* the last boundary call was an accumulation and it has returned Ok
Returned == pc = "idle" /\ last.op \in AccOps /\ ret.kind = "Ok"

\* the entries of d that are strictly less than bc, in order
InRange(d, bc) == SelectSeq(d, LAMBDA x : x < bc)

AllInRange(d, bc) == \A i \in 1 .. Len(d) : d[i] < bc

\* occurrences of b in d
Occ(b, d) == Cardinality({i \in 1 .. Len(d) : d[i] = b})

Range(d) == {d[i] : i \in 1 .. Len(d)}

\* sum of a vector
VSum(v) == SumOver(DOMAIN v.at, v.at)

\* the memory of a driver before its first increment
Fresh(bc) == [cache |-> DriverCache(bc), counts |-> VecNew(bc), metrics |-> MetricsDefault]

-----------------------------------------------------------------------------
(* Properties of one accumulation (SpecAcc) *)

\* C1  Conservation: when every entry of the stream is below bin_count, the
\* returned counts have length bin_count, hold for every bin b the number of
\* occurrences of b in the stream, and sum to the stream's length.  (A bin that
\* is neither stored in the vector nor in the stream reads 0 and occurs 0 times.)
C1_Conservation ==
    (Returned /\ AllInRange(data, bin_count)) =>
        /\ ret.counts.len = bin_count
        /\ DOMAIN ret.counts.at \subseteq 0 .. bin_count - 1
        /\ \A b \in (DOMAIN ret.counts.at) \cup Range(data) :
               VGet(ret.counts, b) = Occ(b, data)
        /\ VSum(ret.counts) = Len(data)

\* an all-in-range run of the widest geometry that evicted a slot and took the
\* bypass path
C1_Witness ==
    /\ Returned
    /\ AllInRange(data, bin_count)
    /\ bin_count > 16384
    /\ metrics.evicts > 0
    /\ \E i \in 1 .. Len(data) : data[i] % 1024 >= 512
    /\ \E i \in 1 .. Len(data) : data[i] % 1024 < 512

\* C2  Out-of-range tolerance: an entry >= bin_count has no effect.  At every
\* point of the loop the cache, the counts and the Metrics are those of a run
\* fed only the in-range entries seen so far, and the returned counts and the
\* five counters are those of the accumulation of the stream with the
\* out-of-range entries removed.
C2_OutOfRangeNoEffect ==
    /\ pc = "loop" =>
           st_now = IncrementAll(Fresh(bin_count), InRange(fed, bin_count), 0)
    /\ Returned =>
           [counts |-> ret.counts, metrics |-> metrics]
               = accumulate_slice(InRange(data, bin_count), bin_count)

\* a returned run whose stream mixes in-range and out-of-range entries and evicts
C2_Witness ==
    /\ Returned
    /\ \E i \in 1 .. Len(data) : data[i] >= bin_count
    /\ \E i \in 1 .. Len(data) : data[i] < bin_count
    /\ metrics.evicts > 0

\* C3  Path equivalence: whichever driver ran, increment was fed the stream's
\* values in stream order, and the returned counts and the Metrics are those of
\* the scalar driver on the same stream and bin_count.
C3_PathEquivalence ==
    Returned =>
        /\ fed = data
        /\ [counts |-> ret.counts, metrics |-> metrics] = accumulate_slice(data, bin_count)

\* a SIMD run over full lanes and a remainder, with evictions
C3_Witness ==
    /\ Returned
    /\ simd
    /\ Len(data) > LANES
    /\ Len(data) % LANES # 0
    /\ metrics.evicts > 0

-----------------------------------------------------------------------------
(* Properties of the calling context (Spec) *)

\* C4  accumulateScratch(len, bin_count) with len above the scratch buffer's
\* current length fails with an error and returns no array, and leaves the
\* buffer's length, its contents and the Metrics as they were.
C4_ScratchLenExceeded ==
    (last.op = "accumulateScratch" /\ last.len > Len(last.scratch)) =>
        /\ pc = "idle"
        /\ ret = RetErr("scratch length exceeded")
        /\ Len(scratch) = Len(last.scratch)
        /\ scratch = last.scratch
        /\ metrics = last.metrics

\* a failed call on a non-empty buffer while the Metrics of an earlier call stand
C4_Witness ==
    /\ last.op = "accumulateScratch"
    /\ last.len > Len(last.scratch)
    /\ Len(scratch) > 0
    /\ metrics.rows > 0
    /\ ret.kind = "Err"

\* C5  (as claimed) accumulateScratch with len greater than the size passed to the
\* most recent scratchBuffer call fails and returns no array
C5_LastReservedSize ==
    (pc = "idle" /\ last.op = "accumulateScratch" /\ last.len > view) =>
        ret.kind = "Err"

\* C5  (amended) accumulateScratch with len greater than the largest size passed
\* to any scratchBuffer call so far fails with "scratch length exceeded" and
\* returns no array; with len at most that size and bin_count >= 1 it returns the
\* counts, also when the most recent scratchBuffer call asked for less than len.
C5_LargestReservedSize ==
    /\ (last.op = "accumulateScratch" /\ last.len > max_size) =>
           (pc = "idle" /\ ret = RetErr("scratch length exceeded"))
    /\ (pc = "idle" /\ last.op = "accumulateScratch" /\ last.len <= max_size
          /\ last.bin_count > 0) =>
           (ret.kind = "Ok" /\ ret.counts.len = last.bin_count)

\* a failed call after reserve(n), reserve(m) with m < n < len
C5_Witness ==
    /\ last.op = "accumulateScratch"
    /\ last.len > max_size
    /\ view < max_size
    /\ 0 < view
    /\ ret = RetErr("scratch length exceeded")

\* C6  an accumulation with bin_count = 0 is rejected before any processing: it
\* returns an error and no array, builds no cache and no counts, feeds nothing
\* to increment, and leaves the Metrics and the scratch buffer as they were.
C6_ZeroBinCount ==
    (last.op \in AccOps /\ last.bin_count = 0) =>
        /\ pc \in {"slice", "idle"}
        /\ pc = "idle" => ret.kind = "Err"
        /\ (pc = "idle" /\ last.len <= Len(last.scratch)) =>
               ret = RetErr("bin_count must be greater than zero")
        /\ (pc = "idle" /\ last.op = "accumulateBins") =>
               ret = RetErr("bin_count must be greater than zero")
        /\ cache = NoCache
        /\ counts = NoVec
        /\ fed = <<>>
        /\ metrics = last.metrics
        /\ scratch = last.scratch

\* a rejected call over a non-empty stream while the Metrics of an earlier call stand
C6_Witness ==
    /\ pc = "idle"
    /\ last.op \in AccOps
    /\ last.bin_count = 0
    /\ Len(data) > 0
    /\ metrics.rows > 0
    /\ ret = RetErr("bin_count must be greater than zero")

\* C7  Scratch monotonicity: the buffer's length always equals the largest size
\* ever passed to scratchBuffer (so it never decreases: a request at or below it
\* leaves it, a request above it raises it to the request), and the view returned
\* has the requested length and lies inside the buffer.
C7_ScratchMonotone ==
    /\ Len(scratch) = max_size
    /\ view <= Len(scratch)
    /\ last.op = "scratchBuffer" =>
           (ret = RetView(last.len) /\ view = last.len /\ Len(scratch) >= last.len)

\* a request below the current length
C7_Witness ==
    /\ last.op = "scratchBuffer"
    /\ 0 < last.len
    /\ last.len < Len(scratch)

\* C8  takeMetrics returns the five counters as they were and sets them to zero;
\* after takeMetrics or resetMetrics the counters stay zero, and every further
\* takeMetrics returns zeros, until an accumulation gets past its checks.
C8_TakeMetricsResets ==
    /\ last.op = "takeMetrics" =>
           (ret = RetMetrics(MetricsObject(last.metrics)) /\ metrics = MetricsDefault)
    /\ last.op = "resetMetrics" => metrics = MetricsDefault
    /\ clean => metrics = MetricsDefault
    /\ (last.op = "takeMetrics" /\ last.clean) =>
           ret = RetMetrics(MetricsObject(MetricsDefault))

\* a takeMetrics that returned nonzero counters
C8_Witness ==
    /\ last.op = "takeMetrics"
    /\ ret.kind = "metrics"
    /\ ret.obj.rows > 0
    /\ ret.obj.flushes > 0

\* C9  No cross-call state: the counts an accumulation returns and the Metrics it
\* leaves are a function of the slice it was given and of bin_count alone, whatever
\* the calls before it; the Metrics of an earlier accumulation are gone.
C9_NoCrossCallState ==
    Returned =>
        /\ last.op = "accumulateScratch" => data = SubSeq(last.scratch, 1, last.len)
        /\ [counts |-> ret.counts, metrics |-> metrics] = accumulate_slice(data, bin_count)

\* an accumulation that returned after an earlier one whose Metrics were never
\* taken and differ from its own
C9_Witness ==
    /\ Returned
    /\ ~last.clean
    /\ last.metrics.rows > 0
    /\ last.metrics # metrics

-----------------------------------------------------------------------------
(* The rows counter (SpecAcc) *)

\* C10  (as claimed) after a successful accumulation the rows counter equals the
\* number of entries strictly less than bin_count
C10_RowsCountInRange ==
    Returned => metrics.rows = Len(InRange(data, bin_count))

-----------------------------------------------------------------------------
(* Order of the stream (SpecAcc) *)

\* d read backwards
Reverse(d) == [i \in 1 .. Len(d) |-> d[Len(d) + 1 - i]]

\* d with its first entry moved to the end
RotateLeft(d) == IF Len(d) = 0 THEN d ELSE Append(Tail(d), Head(d))

\* d with the entries at positions i and i + 1 exchanged
SwapAt(d, i) == [d EXCEPT ![i] = d[i + 1], ![i + 1] = d[i]]

\* permutations of d the order properties are tried on: the sorted, the reversed and
\* the rotated stream, and every exchange of two neighbours (the exchanges generate
\* all permutations)
Perms(d) ==
    {SortSeq(d, LAMBDA x, y : x < y), Reverse(d), RotateLeft(d)}
    \cup {SwapAt(d, i) : i \in 1 .. Len(d) - 1}

\* r, the outcome [counts, metrics] of another call, has the counts and the rows
\* counter of the call that has returned
SameCountsRows(r) == r.counts = ret.counts /\ r.metrics.rows = metrics.rows

\* r has the counts, the rows counter and the bins counter of the call that has returned
SameCountsRowsBins(r) == SameCountsRows(r) /\ r.metrics.bins = metrics.bins

\* C11  (as claimed) two streams that are permutations of each other give, for the
\* same bin_count, equal counts and equal bins and rows counters
C11_OrderConfinedToFlushCounts ==
    Returned =>
        \A p \in Perms(data) : SameCountsRowsBins(accumulate_slice(p, bin_count))

\* C11  (amended) two streams that are permutations of each other give, for the
\* same bin_count, equal counts and an equal rows counter; flushes, evictions,
\* finalFlushes and bins may differ.
C11_OrderInsensitiveCountsRows ==
    Returned =>
        \A p \in Perms(data) : SameCountsRows(accumulate_slice(p, bin_count))

\* a run with evictions one of whose permutations flushes a different number of times
C11_Witness ==
    /\ Returned
    /\ metrics.evicts > 0
    /\ \E p \in Perms(data) :
           accumulate_slice(p, bin_count).metrics.flushes # metrics.flushes

-----------------------------------------------------------------------------
(* Slot capacity (SpecAcc) *)

\* a driver holds a cache: between the construction of the cache and the return
InCall == pc \in {"loop", "flushed"}

\* the least k with k * d >= n
CeilDiv(n, d) == (n + d - 1) \div d

\* the geometry as the slot-capacity rule states it
StatedShardBits(bc) ==
    IF bc <= 256 THEN 0 ELSE IF bc <= 2048 THEN 6 ELSE IF bc <= 16384 THEN 8 ELSE 10

StatedCap(bc) == IF bc <= 2048 THEN 8 ELSE IF bc <= 16384 THEN 16 ELSE 32

StatedCapacity(bc) == Min(CeilDiv(bc, Pow2(StatedShardBits(bc))), StatedCap(bc))

\* C12  the cache of a call has min(ceil(bin_count / 2^shard_bits), cap) slots and
\* at least one, with shard_bits 0, 6, 8, 10 and cap 8, 8, 16, 32 for bin_count up
\* to 256, 2048, 16384 and above
C12_SlotCapacityRule ==
    InCall =>
        /\ SlotsLen(cache) = StatedCapacity(bin_count)
        /\ SlotsLen(cache) >= 1
        /\ cache.shard_bits = StatedShardBits(bin_count)

-----------------------------------------------------------------------------
(* The cache between increments (SpecAcc) *)

\* the shard indices the slots of c hold
Resident(c) == {c.slots[i].id : i \in DOMAIN c.slots} \ {None}

\* shard_map[s] = i + 1 exactly when slots[i].id = Some(s), no shard in two slots,
\* and every stored map entry is 0 or a slot index plus one
IndexConsistent(c) ==
    /\ \A i \in DOMAIN c.slots :
           c.slots[i].id # None =>
               /\ c.slots[i].id < c.shard_map.len
               /\ VGet(c.shard_map, c.slots[i].id) = i + 1
    /\ \A s \in DOMAIN c.shard_map.at :
           /\ s < c.shard_map.len
           /\ c.shard_map.at[s] \in 1 .. SlotsLen(c)
           /\ c.slots[c.shard_map.at[s] - 1].id = s
    /\ \A i, j \in DOMAIN c.slots :
           c.slots[i].id # None /\ c.slots[i].id = c.slots[j].id => i = j

\* C13  Index consistency: after every increment and after flush_all, shard_map[s] =
\* i + 1 exactly when slots[i].id = Some(s); no two slots hold the same shard; the
\* stored map values lie in 0 .. slot count; and the shard index of every in-range
\* bin is inside shard_map.
C13_IndexConsistency ==
    InCall =>
        /\ IndexConsistent(cache)
        /\ \A b \in Range(data) \cup {bin_count - 1} :
               b < bin_count => ShardIdx(cache, b) < cache.shard_map.len

\* inside a call that has evicted, with the cache full
C13_Witness ==
    /\ pc = "loop"
    /\ metrics.evicts > 1
    /\ FreeSlots(cache) = {}
    /\ Len(fed) > 0

\* the nonzero counters of slot i: positions of the store inside the slot's extent
SlotCounters(c, i) ==
    {k \in DOMAIN c.store.at : k \div c.shard_size = i}

\* a slot that is not dirty holds only zeros, and a dirty slot holds a nonzero counter
CleanSlots(c) ==
    /\ \A k \in DOMAIN c.store.at : k < c.store.len /\ c.store.at[k] > 0
    /\ \A i \in DOMAIN c.slots : c.slots[i].used <=> SlotCounters(c, i) # {}

\* C14  Clean-slot invariant: after every increment, flush_slot and flush_all, a slot
\* that is not dirty has all its counters zero, and a dirty slot has at least one
\* nonzero counter.
C14_CleanSlotInvariant ==
    InCall =>
        /\ CleanSlots(cache)
        /\ \A i \in DOMAIN cache.slots :
               /\ CleanSlots(flush_slot(st_now, i, "Evict").cache)
               /\ ~flush_slot(st_now, i, "Final").cache.slots[i].used

\* inside a call: a dirty slot beside a mapped slot that is not dirty
C14_Witness ==
    /\ pc = "loop"
    /\ \E i, j \in DOMAIN cache.slots :
           /\ cache.slots[i].used
           /\ cache.slots[j].id # None
           /\ ~cache.slots[j].used

\* the buffered counter of bin b: the counter at b's local index in the slot mapped to
\* b's shard, 0 when the shard is unmapped or the local index is beyond the extent
Buffered(c, b) ==
    IF Mapped(c, ShardIdx(c, b)) > 0 /\ LocalIndex(c, b) < c.shard_size
    THEN VGet(c.store, (Mapped(c, ShardIdx(c, b)) - 1) * c.shard_size + LocalIndex(c, b))
    ELSE 0

\* the bin a store position of a mapped slot stands for
BinOf(c, k) ==
    IF c.shard_bits = 0 THEN k % c.shard_size
    ELSE Shl(c.slots[k \div c.shard_size].id, c.shard_bits) + (k % c.shard_size)

\* C15  No count is lost at any intermediate step: after each processed entry, for
\* every bin b below bin_count, counts[b] plus the buffered counter of b equals the
\* number of occurrences of b among the entries processed so far.
C15_NothingLostBetweenSteps ==
    InCall =>
        /\ \A b \in DOMAIN counts.at \cup {BinOf(cache, k) : k \in DOMAIN cache.store.at} :
               b < bin_count
        /\ \A b \in Range(fed) \cup DOMAIN counts.at
                    \cup {BinOf(cache, k) : k \in DOMAIN cache.store.at} :
               VGet(counts, b) + Buffered(cache, b) = IF b < bin_count THEN Occ(b, fed) ELSE 0

\* mid-stream, after evictions: one bin partly in counts and partly buffered
C15_Witness ==
    /\ pc = "loop"
    /\ metrics.evicts > 0
    /\ \E b \in Range(fed) : VGet(counts, b) > 0 /\ Buffered(cache, b) > 0

-----------------------------------------------------------------------------
(* Eviction order (SpecAcc) *)

\* a first-in first-out queue of at most n shards fed the shard indices s in order:
\* q the resident shards, oldest first, and ev the number of shards pushed out
RECURSIVE Fifo(_, _, _, _)
Fifo(s, n, q, ev) ==
    IF s = <<>> THEN [q |-> q, ev |-> ev]
    ELSE IF \E j \in 1 .. Len(q) : q[j] = Head(s) THEN Fifo(Tail(s), n, q, ev)
    ELSE IF Len(q) < n THEN Fifo(Tail(s), n, Append(q, Head(s)), ev)
    ELSE Fifo(Tail(s), n, Append(Tail(q), Head(s)), ev + 1)

\* the shard indices of the in-range entries of d, in order
ShardsOf(c, d, bc) ==
    [i \in 1 .. Len(InRange(d, bc)) |-> ShardIdx(c, InRange(d, bc)[i])]

\* the queue after the entries fed so far
FifoNow == Fifo(ShardsOf(cache, fed, bin_count), SlotsLen(cache), <<>>, 0)

\* the slots hold the queue q after ev evictions: the j-th oldest shard sits in slot
\* (ev + j - 1) mod slot count, the cursor is ev mod slot count
HoldsQueue(c, q, ev) ==
    /\ Cardinality(Resident(c)) = Len(q)
    /\ \A j \in 1 .. Len(q) : c.slots[(ev + j - 1) % SlotsLen(c)].id = q[j]
    /\ c.next_evict = ev % SlotsLen(c)

\* the shards a next entry could ask for: those of the stream's bins
NextShards == {ShardIdx(cache, b) : b \in {x \in Range(data) : x < bin_count}}

\* ensure_slot for shard s, with result r, evicts exactly on a miss with no free
\* slot; the victim is the slot under the cursor, its counters reach counts as an
\* Evict flush (result f), its map entry and counters are cleared, and the cursor
\* moves on by one
EvictsByProtocol(st, s, r, f) ==
    IF Mapped(st.cache, s) = 0 /\ FreeSlots(st.cache) = {}
    THEN /\ r.slot = st.cache.next_evict
         /\ r.st.counts = f.counts
         /\ r.st.metrics = f.metrics
         /\ r.st.metrics.final_flushes = st.metrics.final_flushes
         /\ \A b \in Range(fed) :
                ShardIdx(st.cache, b) = st.cache.slots[st.cache.next_evict].id =>
                    /\ VGet(r.st.counts, b) = VGet(st.counts, b) + Buffered(st.cache, b)
                    /\ Buffered(r.st.cache, b) = 0
         /\ Mapped(r.st.cache, st.cache.slots[st.cache.next_evict].id) = 0
         /\ Mapped(r.st.cache, s) = st.cache.next_evict + 1
         /\ SlotCounters(r.st.cache, st.cache.next_evict) = {}
         /\ r.st.cache.next_evict = (st.cache.next_evict + 1) % SlotsLen(st.cache)
         /\ \A i \in DOMAIN st.cache.slots \ {st.cache.next_evict} :
                r.st.cache.slots[i] = st.cache.slots[i]
    ELSE /\ r.st.counts = st.counts
         /\ r.st.metrics = st.metrics
         /\ r.st.cache.next_evict = st.cache.next_evict
         /\ r.st.cache.store = st.cache.store
         /\ Resident(st.cache) \subseteq Resident(r.st.cache)

\* C16  Eviction protocol: a slot is evicted only on a miss with no free slot; the
\* victim is the slot under the round-robin cursor and is flushed with reason Evict
\* before its counters are zeroed and its map entry cleared; the cursor advances by
\* one modulo the slot count; so the k-th eviction takes slot k mod slot count, which
\* holds the shard that has been resident longest (first in, first out).
C16_RoundRobinFifo ==
    pc = "loop" =>
        /\ HoldsQueue(cache, FifoNow.q, FifoNow.ev)
        /\ \A s \in NextShards :
               EvictsByProtocol(st_now, s, ensure_slot(st_now, s),
                                flush_slot(st_now, cache.next_evict, "Evict"))

\* mid-stream with the cursor wrapped round: more evictions than slots, a dirty
\* victim under the cursor and an unmapped shard still to come
C16_Witness ==
    /\ pc = "loop"
    /\ FifoNow.ev > SlotsLen(cache)
    /\ cache.slots[cache.next_evict].used
    /\ \E s \in NextShards : Mapped(cache, s) = 0

-----------------------------------------------------------------------------
(* The final flush (SpecAcc) *)

\* no slot mapped or dirty, no map entry, no counter
CacheEmpty(c) ==
    /\ \A i \in DOMAIN c.slots : c.slots[i].id = None /\ ~c.slots[i].used
    /\ DOMAIN c.shard_map.at = {}
    /\ DOMAIN c.store.at = {}

\* C17  flush_all runs exactly once per successful accumulation, after the last
\* increment and before the counts are returned; after it the cache is empty (every
\* slot unmapped and not dirty, every map entry and counter 0) and no increment
\* reaches that cache again.
C17_FinalFlushOnce ==
    /\ [](pc = "flushed" => CacheEmpty(cache) /\ SlotsLen(cache) >= 1 /\ Len(fed) = Len(data))
    /\ [][pc' = "flushed" => pc = "loop" /\ Len(fed) = Len(data) /\ fed' = fed]_vars
    /\ [][metrics'.final_flushes # metrics.final_flushes
              => pc = "loop" /\ pc' = "flushed"]_vars
    /\ [][pc = "flushed"
              => pc' = "idle" /\ ret' = RetOk(counts) /\ fed' = fed /\ cache' = NoCache]_vars
    /\ [][pc' = "idle" => pc = "flushed" \/ (pc = "slice" /\ ret'.kind = "Err")]_vars

\* the final flush has just emptied a cache that evicted before: several slots flushed
C17_Witness ==
    /\ pc = "flushed"
    /\ metrics.evicts > 0
    /\ metrics.final_flushes > 1
    /\ Len(fed) > LANES

-----------------------------------------------------------------------------
(* Metrics accounting (SpecAcc) *)

\* what flushing slot i for the given reason adds to the given counter of Metrics
FlushAdds(i, reason, field) ==
    flush_slot(st_now, i, reason).metrics[field] - metrics[field]

\* a flush of slot i for the given reason is recorded only for a mapped dirty slot,
\* under its own reason, with at least one bin and one row
FlushRecorded(i, reason) ==
    IF cache.slots[i].id = None \/ ~cache.slots[i].used
    THEN flush_slot(st_now, i, reason).metrics = metrics
    ELSE /\ FlushAdds(i, reason, "flushes") = 1
         /\ FlushAdds(i, reason, "evicts") = (IF reason = "Evict" THEN 1 ELSE 0)
         /\ FlushAdds(i, reason, "final_flushes") = (IF reason = "Final" THEN 1 ELSE 0)
         /\ FlushAdds(i, reason, "bins") >= 1
         /\ FlushAdds(i, reason, "rows") >= FlushAdds(i, reason, "bins")

\* C18  Metrics accounting: in every reachable state flushes = evictions +
\* finalFlushes; flushing an unmapped or non-dirty slot records nothing; every
\* recorded flush adds at least 1 to bins and at least 1 to rows; and after a call
\* finalFlushes is at most the slot count.
C18_MetricsAccounting ==
    /\ metrics.flushes = metrics.evicts + metrics.final_flushes
    /\ metrics.bins >= metrics.flushes
    /\ metrics.rows >= metrics.bins
    /\ InCall =>
           /\ metrics.final_flushes <= SlotsLen(cache)
           /\ \A i \in DOMAIN cache.slots :
                  FlushRecorded(i, "Evict") /\ FlushRecorded(i, "Final")
    /\ Returned =>
           /\ metrics.final_flushes <= shard_slot_count(bin_count)
           /\ MetricsObject(metrics).flushes
                  = MetricsObject(metrics).evictions + MetricsObject(metrics).finalFlushes

\* inside a call that has recorded evictions: a dirty slot next to a mapped slot that
\* is not dirty
C18_Witness ==
    /\ pc = "loop"
    /\ metrics.evicts > 0
    /\ \E i, j \in DOMAIN cache.slots :
           cache.slots[i].used /\ cache.slots[j].id # None /\ ~cache.slots[j].used

-----------------------------------------------------------------------------
(* Slot pressure (SpecAcc) *)

\* the shards covering the bin space are no more than the slots of the cache
NoPressure(bc) ==
    CeilDiv(bc, Pow2(shard_params(bc).shard_bits)) <= shard_slot_count(bc)

\* C19  No eviction without slot pressure: when ceil(bin_count / 2^shard_bits) is at
\* most the slot count, evictions = 0 and flushes = finalFlushes; and for bin_count
\* up to 256 evictions = 0 and flushes = finalFlushes <= 1.
C19_NoEvictionWithoutPressure ==
    /\ bin_count >= 1 /\ (NoPressure(bin_count) \/ bin_count <= 256) =>
           /\ metrics.evicts = 0
           /\ metrics.flushes = metrics.final_flushes
           /\ InCall => FifoNow.ev = 0
    /\ bin_count >= 1 /\ bin_count <= 256 => metrics.flushes <= 1

\* a returned call without pressure that came back to its shards and filled more
\* slots than the smallest cache has
C19_Witness ==
    /\ Returned
    /\ NoPressure(bin_count)
    /\ bin_count > 2048
    /\ metrics.final_flushes > 8
    /\ metrics.rows > metrics.bins

-----------------------------------------------------------------------------
(* The bypass path (SpecAcc) *)

\* the in-range bins of the stream: the entries an increment can be asked to count
NextBins == {b \in Range(data) : b < bin_count}

\* increment(b), with result r, buffers the entry: the counter of b in the slot of
\* b's shard goes up by one, that slot is dirty, and counts[b] is left alone
LandsInSlot(r, b) ==
    /\ Mapped(r.cache, ShardIdx(cache, b)) > 0
    /\ Buffered(r.cache, b) = Buffered(cache, b) + 1
    /\ r.cache.slots[Mapped(r.cache, ShardIdx(cache, b)) - 1].used
    /\ VGet(r.counts, b) = VGet(counts, b)

\* increment(b), with result r, bypasses the cache: counts[b] goes up by exactly one,
\* nothing is buffered for b, and no slot becomes dirty
TakesBypass(r, b) ==
    /\ VGet(r.counts, b) = VGet(counts, b) + 1
    /\ Buffered(r.cache, b) = 0
    /\ Buffered(cache, b) = 0
    /\ \A i \in DOMAIN cache.slots : r.cache.slots[i].used => cache.slots[i].used
    /\ VSum(r.cache.store) <= VSum(cache.store)

\* C20  The bypass path is reachable only in the widest tier: for bin_count up to
\* 16384 every in-range increment lands in a slot counter and marks the slot dirty;
\* an increment that takes the bypass (bin_count above 16384, the bin's offset in its
\* 1024-bin shard at or beyond 512) adds exactly 1 to counts[bin] and marks no slot
\* dirty.
C20_BypassOnlyWidestTier ==
    pc = "loop" =>
        \A b \in NextBins :
            IF bin_count > 16384 /\ b % 1024 >= 512
            THEN TakesBypass(increment(st_now, b), b)
            ELSE LandsInSlot(increment(st_now, b), b)

\* in the widest tier with the cache full and dirty: one bin of the stream bypasses
\* from an unmapped shard, another is buffered
C20_Witness ==
    /\ pc = "loop"
    /\ bin_count > 16384
    /\ FreeSlots(cache) = {}
    /\ \E b \in NextBins :
           b % 1024 >= 512 /\ Mapped(cache, ShardIdx(cache, b)) = 0
               /\ cache.slots[cache.next_evict].used
    /\ \E b \in NextBins : b % 1024 < 512 /\ Buffered(cache, b) > 0

====
